---- MODULE Spec2Model ----
(***************************************************************************)
(* Model of the auto-windows helper scripts:                               *)
(*   - the readiness scripts get_vm_ip.py (polling loop) and               *)
(*     check_vm_status.py (one-shot check), which share the result file    *)
(*     temp/vm-details.json;                                               *)
(*   - the in-process automation wrappers deploy_vm_automated_v2.py /      *)
(*     _v3.py, which substitute input() and getpass.getpass();             *)
(*   - the out-of-process wrappers deploy_vm_automated.py / _v4.py, which  *)
(*     run the driven program as a child process.                          *)
(*                                                                         *)
(* Specifications:                                                         *)
(*   Spec, LiveSpec  one run of a readiness script from the call of its    *)
(*                   function on                                           *)
(*   MainSpec        one run of a readiness script from the start of main  *)
(*   SaveSpec        as Spec, the result file written step by step         *)
(*   DriverSpec      one run of run_automated_deployment, the driven       *)
(*                   program calling input() and getpass() in any order    *)
(*   SecretSpec      automated_getpass applied once to any prompt text     *)
(*   ChildSpec       one run of an out-of-process wrapper, and of the      *)
(*                   interactive mode of all four wrappers                 *)
(*   ExtractSpec     the output extractors applied to any emitted text     *)
(***************************************************************************)
EXTENDS Integers, Sequences, FiniteSets, TLC

(***************************************************************************)
(* Python values                                                           *)
(***************************************************************************)
\* Python's None, also the value dict.get() yields for an absent key.
None == "None"

\* Truthiness of a str-or-None value (`if ip_address`).
Truthy(v) == v # None /\ v # ""

(***************************************************************************)
(* Bounds of the model                                                     *)
(***************************************************************************)
\* largest max_wait_minutes a session is started with
MaxWait == 2
\* most network interfaces in one response
MaxNics == 2
\* most ip endpoints in one response, over all its interfaces
MaxEndpoints == 2

(***************************************************************************)
(* The remote platform's answers (GET /vms/{uuid})                         *)
(***************************************************************************)
Ips == {None, "", "10.0.0.5", "10.0.0.6"}

\* None: the endpoint has no 'type' key
TypeValues == {None, "ASSIGNED", "LEARNED"}

Endpoints == [ip : Ips, type : TypeValues]

PowerStates == {"ON", "OFF"}

\* a status code other than 200 stands for every failing HTTP status
StatusCodes == {200, 500}

\* all ip_endpoint_list values of exactly k endpoints
EndpointLists(k) == [1..k -> Endpoints]

RECURSIVE NicListsUpTo(_, _)
\* all nic_list values of at most n interfaces holding at most k endpoints
NicListsUpTo(n, k) ==
    IF n = 0 THEN {<<>>}
    ELSE {<<>>} \cup
         UNION {LET rests == NicListsUpTo(n - 1, k - len)
                IN  {<<[ip_endpoint_list |-> eps]>> \o rest :
                        eps \in EndpointLists(len), rest \in rests} :
                len \in 0..k}

NicLists == NicListsUpTo(MaxNics, MaxEndpoints)

\* what requests.get() does: raise a RequestException, or return a response
\* with a status code and (for 200) a JSON body
Responses ==
    {[exception |-> TRUE, status_code |-> 0, power_state |-> "UNKNOWN", nic_list |-> <<>>]}
    \cup [exception : {FALSE}, status_code : StatusCodes \ {200},
          power_state : {"UNKNOWN"}, nic_list : {<<>>}]
    \cup [exception : {FALSE}, status_code : {200}, power_state : PowerStates, nic_list : NicLists]

(***************************************************************************)
(* Scanning a response for an address                                      *)
(***************************************************************************)
\* ip_endpoint.get('type', 'UNKNOWN')
IpType(ep) == IF ep.type = None THEN "UNKNOWN" ELSE ep.type

\* get_vm_ip.py line 62: `if ip_address and ip_type == 'ASSIGNED'`
PollAcceptsMutantLearned(ep) == Truthy(ep.ip) /\ IpType(ep) \in {"ASSIGNED", "LEARNED"}
PollAccepts(ep) == Truthy(ep.ip) /\ IpType(ep) = "ASSIGNED"

StatusAcceptsMutantAssigned(ep) == Truthy(ep.ip) /\ IpType(ep) = "ASSIGNED"
\* check_vm_status.py lines 64-66: `if ip_address:` ... `if ip_type in ['ASSIGNED', 'LEARNED']`
StatusAccepts(ep) == Truthy(ep.ip) /\ IpType(ep) \in {"ASSIGNED", "LEARNED"}

RECURSIVE ScanEndpoints(_, _)
\* the inner loop `for ip_endpoint in ip_endpoint_list`: the ip of the first
\* endpoint the script accepts (the loop returns there), None when the loop ends
ScanEndpoints(eps, poll) ==
    IF eps = <<>> THEN None
    ELSE IF (IF poll THEN PollAccepts(Head(eps)) ELSE StatusAccepts(Head(eps)))
         THEN Head(eps).ip
         ELSE ScanEndpoints(Tail(eps), poll)

RECURSIVE ScanNicsMutantLast(_, _)
ScanNicsMutantLast(nics, poll) ==
    IF nics = <<>> THEN None
    ELSE LET later == ScanNicsMutantLast(Tail(nics), poll)
         IN  IF later # None THEN later
             ELSE ScanEndpoints(Head(nics).ip_endpoint_list, poll)

RECURSIVE ScanNics(_, _)
\* the outer loop `for nic in nic_list` around the inner one
ScanNics(nics, poll) ==
    IF nics = <<>> THEN None
    ELSE LET found == ScanEndpoints(Head(nics).ip_endpoint_list, poll)
         IN  IF found # None THEN found ELSE ScanNics(Tail(nics), poll)


(***************************************************************************)
(* What a response lists, stated without the loops (used by the claims)    *)
(***************************************************************************)
\* positions <<i, j>> of the endpoints of nic_list whose ip is non-empty and
\* whose category is in cats
ListedAt(nics, cats) ==
    {p \in UNION {{<<i, j>> : j \in 1..Len(nics[i].ip_endpoint_list)} : i \in 1..Len(nics)} :
        LET ep == nics[p[1]].ip_endpoint_list[p[2]]
        IN  Truthy(ep.ip) /\ IpType(ep) \in cats}

Before(p, q) == p[1] < q[1] \/ (p[1] = q[1] /\ p[2] < q[2])

\* the ip at the earliest listed position, None when there is none
FirstListed(nics, cats) ==
    LET ps == ListedAt(nics, cats)
    IN  IF ps = {} THEN None
        ELSE LET p == CHOOSE q \in ps : \A o \in ps : o = q \/ Before(q, o)
             IN  nics[p[1]].ip_endpoint_list[p[2]].ip

\* the ips a response lists in the categories cats
ListedIps(nics, cats) ==
    {nics[p[1]].ip_endpoint_list[p[2]].ip : p \in ListedAt(nics, cats)}

(***************************************************************************)
(* Text: a str is a sequence of characters                                 *)
(***************************************************************************)
UpperCase == <<"A", "B", "C", "D", "E", "F", "G", "H", "I", "J", "K", "L", "M",
               "N", "O", "P", "Q", "R", "S", "T", "U", "V", "W", "X", "Y", "Z">>
LowerCase == <<"a", "b", "c", "d", "e", "f", "g", "h", "i", "j", "k", "l", "m",
               "n", "o", "p", "q", "r", "s", "t", "u", "v", "w", "x", "y", "z">>

\* lower() of one character
LowerChar(c) ==
    IF \E i \in 1..Len(UpperCase) : UpperCase[i] = c
    THEN LowerCase[CHOOSE i \in 1..Len(UpperCase) : UpperCase[i] = c]
    ELSE c

LowerMutantIdentity(t) == t
\* str.lower()
Lower(t) == [i \in 1..Len(t) |-> LowerChar(t[i])]

\* Python's `w in t` for strings: w is the slice of t at some position
Contains(t, w) ==
    \E i \in 0..(Len(t) - Len(w)) : SubSeq(t, i + 1, i + Len(w)) = w

\* '*' * n
Stars(n) == [i \in 1..n |-> "*"]

\* the keywords of automated_getpass
KwAdmin == <<"a", "d", "m", "i", "n">>
KwAdministrator == <<"a", "d", "m", "i", "n", "i", "s", "t", "r", "a", "t", "o", "r">>
KwPrism == <<"p", "r", "i", "s", "m">>
KwPc == <<"p", "c", "_">>
KwEnterPasswordFor == <<"e", "n", "t", "e", "r", " ", "p", "a", "s", "s", "w", "o", "r", "d",
                        " ", "f", "o", "r">>

(***************************************************************************)
(* Bounds and inputs of the wrappers                                       *)
(***************************************************************************)
\* most pieces a prompt text is put together from
MaxPieces == 2
\* nested calls after which Python raises RecursionError
RecursionLimit == 3

\* pieces of prompt texts: keywords in several spellings, keywords cut in two,
\* and neutral text
Pieces ==
    {<<"A", "d", "m", "i", "n">>,
     <<"a", "d">>,
     <<"M", "I", "N">>,
     <<"P", "r", "i", "s", "m", " ">>,
     <<"P", "C", "_">>,
     <<"E", "n", "t", "e", "r", " ", "p", "a", "s", "s", "w", "o", "r", "d", " ", "f", "o", "r", " ">>,
     <<"P", "a", "s", "s", "w", "o", "r", "d", ":", " ">>,
     <<"u", "s", "e", "r">>}

RECURSIVE PromptsUpTo(_)
PromptsUpTo(n) ==
    IF n = 0 THEN {<<>>}
    ELSE {<<>>} \cup {a \o b : a \in Pieces, b \in PromptsUpTo(n - 1)}

\* the prompt texts a driven program may pass to getpass
Prompts == PromptsUpTo(MaxPieces)

\* the prompts of the run modelled with the answer queue
SecretPrompts ==
    {<<"A", "d", "m", "i", "n", " ", "p", "a", "s", "s", "w", "o", "r", "d", ":", " ">>,
     <<"P", "r", "i", "s", "m", " ", "p", "a", "s", "s", "w", "o", "r", "d", ":", " ">>,
     <<"P", "a", "s", "s", "w", "o", "r", "d", ":", " ">>}
InputPrompts == {<<"V", "M", " ", "n", "a", "m", "e", ":", " ">>, <<"P", "r", "o", "c", "e", "e", "d", "?", " ">>}

\* an absent key of the automation request (text values are sequences, so the
\* absent one is a sequence no text equals)
Absent == <<None>>

VmNames == {Absent, <<"v", "m", "1">>}
ProceedAnswers == {Absent, <<"y">>, <<"n">>}
SecretValues == {Absent, <<"#">>, <<"7", "#">>}
\* what a person types at the genuine prompt
TypedAnswers == {<<"t">>}

AutomationRequests ==
    [vm_name : VmNames, proceed_deployment : ProceedAnswers,
     admin_password : SecretValues, pc_password : SecretValues]

\* dict.get(key, default)
Get(value, default) == IF value = Absent THEN default ELSE value

(***************************************************************************)
(* deploy_vm_automated_v2.py / _v3.py: the substitutes                     *)
(***************************************************************************)
RECURSIVE AutomatedInputMutantPopLast(_, _, _)
AutomatedInputMutantPopLast(queue, binding, depth) ==
    IF queue # <<>>
    THEN [via |-> "queue", response |-> queue[Len(queue)],
          queue |-> SubSeq(queue, 1, Len(queue) - 1), depth |-> depth]
    ELSE IF binding # "automated_input"
    THEN [via |-> "original", response |-> <<>>, queue |-> queue, depth |-> depth]
    ELSE IF depth >= RecursionLimit
    THEN [via |-> "RecursionError", response |-> <<>>, queue |-> queue, depth |-> depth]
    ELSE AutomatedInputMutantPopLast(queue, binding, depth + 1)

RECURSIVE AutomatedInput(_, _, _)
\* automated_input (v2 lines 28-35): pop the head of the queue, or call
\* `input(prompt)`.  The name input is looked up when the call is made, in
\* builtins, so the call goes to whatever builtins.input is bound to then
\* (binding); depth counts the nested calls.
AutomatedInput(queue, binding, depth) ==
    IF queue # <<>>
    THEN [via |-> "queue", response |-> Head(queue), queue |-> Tail(queue), depth |-> depth]
    ELSE IF binding # "automated_input"
    THEN [via |-> "original", response |-> <<>>, queue |-> queue, depth |-> depth]
    ELSE IF depth >= RecursionLimit
    THEN [via |-> "RecursionError", response |-> <<>>, queue |-> queue, depth |-> depth]
    ELSE AutomatedInput(queue, binding, depth + 1)

\* automated_getpass (v2 lines 41-50): the password the prompt selects
SelectPassword(prompt, passwords_dict) ==
    LET low == Lower(prompt)
    IN  IF Contains(low, KwAdmin) \/ Contains(low, KwAdministrator)
        THEN passwords_dict.admin_password
        ELSE IF \E keyword \in {KwPrism, KwPc, KwEnterPasswordFor} : Contains(low, keyword)
        THEN passwords_dict.pc_password
        ELSE passwords_dict.admin_password

EchoSecretMutantClear(prompt, password) == prompt \o password
\* automated_getpass (v2 line 52): the line it prints
EchoSecret(prompt, password) == prompt \o Stars(Len(password))

\* v2 lines 95-96: `'*' * len(p) if p else 'Not provided'`
SummaryMask(password) == IF password # <<>> THEN Stars(Len(password)) ELSE <<"Not provided">>

\* v2 lines 83-86
InputsQueue(data) == <<Get(data.vm_name, <<>>), Get(data.proceed_deployment, <<"y">>)>>

\* v2 lines 89-92
Passwords(data) ==
    [admin_password |-> Get(data.admin_password, <<>>),
     pc_password |-> Get(data.pc_password, <<>>)]

\* v2 lines 79-96: what the wrapper prints before it patches
Summary(data) ==
    <<<<">>> Running VM deployment in automation mode...">>,
      <<"   VM Name: ">> \o Get(data.vm_name, <<"N", "/", "A">>),
      <<">>> Password automation configured:">>,
      <<"   VM Admin Password: ">> \o SummaryMask(Passwords(data).admin_password),
      <<"   Prism Central Password: ">> \o SummaryMask(Passwords(data).pc_password)>>

NoCall == [kind |-> "none", prompt |-> <<>>, value |-> <<>>, via |-> "none",
           exhausted |-> FALSE, reentries |-> 0]

(***************************************************************************)
(* deploy_vm_automated_v4.py: extract_uuids_from_output                    *)
(***************************************************************************)
\* the character class [0-9a-f] of uuid_pattern (no flag makes it ignore case)
HexLower == {"0", "1", "2", "3", "4", "5", "6", "7", "8", "9", "a", "b", "c", "d", "e", "f"}

\* the positions of the '-' in uuid_pattern and the length of a match
UuidDashes == {9, 14, 19, 24}
UuidLength == 36

\* uuid_pattern matches at position i of line
MatchesUuidAt(line, i) ==
    /\ i + UuidLength - 1 <= Len(line)
    /\ \A j \in 1..UuidLength :
           IF j \in UuidDashes THEN line[i + j - 1] = "-" ELSE line[i + j - 1] \in HexLower

\* re.search(...) found nothing
NoMatch == <<None>>

\* re.search(uuid_pattern, line): the leftmost match anywhere in the line
SearchUuid(line) ==
    LET at == {i \in 1..Len(line) : MatchesUuidAt(line, i)}
    IN  IF at = {} THEN NoMatch
        ELSE LET i == CHOOSE k \in at : \A o \in at : k <= o
             IN  SubSeq(line, i, i + UuidLength - 1)

RECURSIVE Join(_)
\* '\n'.join(lines)
Join(lines) ==
    IF lines = <<>> THEN <<>>
    ELSE IF Len(lines) = 1 THEN lines[1]
    ELSE lines[1] \o <<"\n">> \o Join(Tail(lines))

\* text.split('\n'): the pieces between the newlines, one more than there are
\* newlines
Split(text) ==
    LET newlines == {i \in 1..Len(text) : text[i] = "\n"}
        \* position of the k-th newline; 0 and Len(text) + 1 bound the text
        at(k) == IF k = 0 THEN 0
                 ELSE IF k > Cardinality(newlines) THEN Len(text) + 1
                 ELSE CHOOSE i \in newlines : Cardinality({j \in newlines : j < i}) = k - 1
    IN  [k \in 1..(Cardinality(newlines) + 1) |-> SubSeq(text, at(k - 1) + 1, at(k) - 1)]

MarkerVm == <<"V", "M", " ", "U", "U", "I", "D", ":">>
MarkerTask == <<"T", "a", "s", "k", " ", "U", "U", "I", "D", ":">>

RECURSIVE ScanLines(_, _, _)
\* the loop `for line in lines` (v4 lines 69-77): every labelled line with a
\* match assigns the variable of its label
ScanLines(lines, vm, task) ==
    IF lines = <<>> THEN [vm_uuid |-> vm, task_uuid |-> task]
    ELSE LET line == Head(lines)
             match == SearchUuid(line)
         IN  IF Contains(line, MarkerVm)
             THEN ScanLines(Tail(lines), IF match # NoMatch THEN match ELSE vm, task)
             ELSE IF Contains(line, MarkerTask)
             THEN ScanLines(Tail(lines), vm, IF match # NoMatch THEN match ELSE task)
             ELSE ScanLines(Tail(lines), vm, task)

\* extract_uuids_from_output (v4 lines 59-81)
ExtractUuidsFromOutput(text) == ScanLines(Split(text), <<>>, <<>>)

(***************************************************************************)
(* deploy_vm_automated_v2.py: capture_print                                *)
(***************************************************************************)
\* the keywords of line 116
KwVmUuid == <<"V", "M", " ", "U", "U", "I", "D">>
KwTaskUuid == <<"T", "a", "s", "k", " ", "U", "U", "I", "D">>
KwUuid == <<"U", "U", "I", "D", ":">>

HasUuidKeyword(message) ==
    \E uuid_keyword \in {KwVmUuid, KwTaskUuid, KwUuid} : Contains(message, uuid_keyword)

\* f"[DEBUG] Captured print: {repr(message)}" (line 117)
DebugMessage(message) == <<"[", "D", "E", "B", "U", "G", "]", " ", "C", "a", "p", "t", "u", "r", "e", "d", " ", "p", "r", "i", "n", "t", ":", " ">> \o <<"'">> \o message \o <<"'">>

\* the character class [a-fA-F0-9-] of lines 122 and 131, and \s
CaptureClass == HexLower \cup {"A", "B", "C", "D", "E", "F", "-"}
WhiteSpace == {" ", "\t", "\n"}

\* how many characters of text from position i on are in class
RunLength(text, i, class) ==
    LET stops == {k \in i..Len(text) : text[k] \notin class}
    IN  IF i > Len(text) THEN 0
        ELSE IF stops = {} THEN Len(text) - i + 1
        ELSE (CHOOSE k \in stops : \A o \in stops : k <= o) - i

\* re.search(marker + r'\s*([a-fA-F0-9-]+)', message).group(1)
SearchCapture(message, marker) ==
    LET start(i) == i + Len(marker) + RunLength(message, i + Len(marker), WhiteSpace)
        at == {i \in 1..Len(message) :
                  /\ i + Len(marker) - 1 <= Len(message)
                  /\ SubSeq(message, i, i + Len(marker) - 1) = marker
                  /\ RunLength(message, start(i), CaptureClass) > 0}
    IN  IF at = {} THEN NoMatch
        ELSE LET i == CHOOSE k \in at : \A o \in at : k <= o
             IN  SubSeq(message, start(i), start(i) + RunLength(message, start(i), CaptureClass) - 1)

\* capture_print lines 119-139, with print bound to the original: the two
\* labels are tested one after the other, then the message is forwarded
CaptureMatch(message, vm, task) ==
    LET vm_match == SearchCapture(message, MarkerVm)
        task_match == SearchCapture(message, MarkerTask)
    IN  [raised |-> "none",
         vm_uuid |-> IF Contains(message, MarkerVm) /\ vm_match # NoMatch THEN vm_match ELSE vm,
         task_uuid |-> IF Contains(message, MarkerTask) /\ task_match # NoMatch
                       THEN task_match ELSE task,
         forwarded |-> 1]

RECURSIVE CapturePrint(_, _, _, _, _)
\* capture_print (lines 108-139).  The print of line 117 is looked up in
\* builtins when it is called, where line 145 has installed capture_print
\* itself (binding); its message holds the keyword again.  depth counts the
\* nested calls.
CapturePrint(message, binding, depth, vm, task) ==
    IF HasUuidKeyword(message) /\ binding = "capture_print"
    THEN IF depth >= RecursionLimit
         THEN [raised |-> "RecursionError", vm_uuid |-> vm, task_uuid |-> task, forwarded |-> 0]
         ELSE LET debug == CapturePrint(DebugMessage(message), binding, depth + 1, vm, task)
              IN  IF debug.raised # "none" THEN debug
                  ELSE CaptureMatch(message, debug.vm_uuid, debug.task_uuid)
    ELSE CaptureMatch(message, vm, task)

(***************************************************************************)
(* State of the readiness scripts                                          *)
(***************************************************************************)
VARIABLES
    script,             \* which script runs: "get_vm_ip" or "check_vm_status"
    pc,                 \* "loop", "returned", "saved" (get_vm_ip); "call", "returned" (check_vm_status)
    max_wait_minutes,   \* get_vm_ip_address's parameter
    attempt,            \* the loop variable of `for attempt in range(max_attempts)`
    queries,            \* number of requests.get() calls issued
    clock,              \* time slept so far (time.sleep), in seconds
    vm_data,            \* [bound, power_state]: bound iff 'vm_data' in locals()
    result,             \* the dict the function returns; status "NONE" before it returns
    ret,                \* check_vm_status's return value: "True", "False"; "NONE" before
    file,               \* content of temp/vm-details.json; status "ABSENT" when there is none
    wrote,              \* number of times this run has written the result file
    \* history of the session, kept for the claims
    assignedAt,         \* 1-based attempt whose response first listed an ASSIGNED address, 0 if none yet
    assignedIps,        \* the ASSIGNED addresses that response listed
    sawQualifying,      \* some 200 response listed an ASSIGNED or LEARNED address
    transportFailures,  \* number of attempts that raised a RequestException
    httpErrors,         \* number of attempts answered with a status code other than 200
    lastKind,           \* last attempt: "none", "exception", "http_error", "ok"
    lastAttempt,        \* loop variable of the last attempt made, -1 before the first
    firstListed,        \* last 200 response: first listed address in the categories the script accepts
    lastListed          \* last 200 response: all listed addresses in those categories

\* State of the in-process wrappers (deploy_vm_automated_v2.py, _v3.py)
VARIABLES
    version,            \* which wrapper runs: "v2" or "v3"
    dpc,                \* "start", "running" (the driven program runs, patched), "done"
    automation_data,    \* the loaded automation request; Absent stands for an absent key
    inputs_queue,       \* the list the automated input function pops from
    passwords,          \* the dict the automated getpass function reads
    builtins_input,     \* what builtins.input is bound to: "original" or "automated_input"
    getpass_getpass,    \* what getpass.getpass is bound to: "original" or "automated_getpass"
    stdout,             \* the lines the last step wrote to the output stream
    builtins_print,     \* what builtins.print is bound to: "original" or "capture_print"
    sys_argv,           \* what sys.argv is bound to: "original" or "deploy"
    exit_code,          \* the wrapper's exit status, -1 while it runs: the return value of
                        \* run_automated_deployment or the code of a SystemExit that left it
    lastCall,           \* the driven program's last prompt call and what it got back
    handed,             \* the queue entries handed to the driven program so far, in order
    secretAsked         \* the driven program has called getpass since the patch

\* State of the out-of-process wrappers (deploy_vm_automated.py, _v4.py) and of
\* the interactive pass-through of all four wrappers
VARIABLES
    wrapper,            \* which wrapper runs: "v1", "v2", "v3" or "v4"
    request,            \* how get_automation_inputs ended: "loaded", "unset", "missing", "unreadable"
    cpc,                \* "start", "communicate" (waiting for the child), "exited"
    child,              \* the child process: "none", "running", "exited", "killed"
    child_stdin,        \* the text written to the child's standard input
    stdin_writes,       \* number of times the wrapper wrote to the child's standard input
    output_read,        \* the wrapper has read the child's output
    input_file,         \* the temporary file of v4: [exists, content]
    returncode,         \* the child's return code, -1 while there is none
    uuids,              \* what the wrapper extracted: [done, vm_uuid, task_uuid]
    reported,           \* the lines the wrapper printed after communicate()
    driven_exit,        \* the exit code the driven program ended with, -1 if it did not
    sys_exit            \* the wrapper's process exit status, -1 while it runs

\* State of main() of the readiness scripts
VARIABLES
    argc,               \* len(sys.argv)
    config,             \* deployment_config.json: "ok", "absent", "no_pc_ip", "no_username"
    prompted,           \* getpass.getpass() has been called for the password
    wpc,                \* writing the result file: "closed", "open" (truncated), "dumped"
    process_exit        \* the script's process exit status, -1 while it runs

\* State of the output extractors
VARIABLES
    extractor,          \* "v4" (extract_uuids_from_output) or "v2" (capture_print)
    output_text,        \* the text the driven program emitted
    epc,                \* "start", "done"
    printed,            \* v2: number of lines of output_text passed to print() so far
    vm_uuid,            \* the extractor's vm_uuid
    task_uuid,          \* the extractor's task_uuid
    raised              \* the exception that left the extractor, "none" if none did

driverVars == <<version, dpc, automation_data, inputs_queue, passwords, builtins_input,
                getpass_getpass, builtins_print, sys_argv, stdout, exit_code, lastCall,
                handed, secretAsked>>

childVars == <<wrapper, request, cpc, child, child_stdin, stdin_writes, output_read,
               input_file, returncode, uuids, reported, driven_exit, sys_exit>>

mainVars == <<argc, config, prompted, wpc, process_exit>>

extractVars == <<extractor, output_text, epc, printed, vm_uuid, task_uuid, raised>>

history == <<assignedAt, assignedIps, sawQualifying, transportFailures, httpErrors,
             lastKind, lastAttempt, firstListed, lastListed>>

readyVars == <<script, pc, max_wait_minutes, attempt, queries, clock, vm_data, result,
               ret, file, wrote, history>>

vars == <<readyVars, driverVars, childVars, mainVars, extractVars>>

\* what the steps of each program leave alone
outsideReady == <<driverVars, childVars, mainVars, extractVars>>
outsideDriver == <<readyVars, childVars, mainVars, extractVars>>
outsideChild == <<readyVars, mainVars, extractVars>>
outsideExtract == <<readyVars, driverVars, childVars, mainVars>>

NoInputFile == [exists |-> FALSE, content |-> <<>>]
NoUuids == [done |-> FALSE, vm_uuid |-> <<>>, task_uuid |-> <<>>]

\* the wrappers do not run
ChildIdle ==
    /\ wrapper = "v1"
    /\ request = "loaded"
    /\ cpc = "exited"
    /\ child = "none"
    /\ child_stdin = <<>>
    /\ stdin_writes = 0
    /\ output_read = FALSE
    /\ input_file = NoInputFile
    /\ returncode = -1
    /\ uuids = NoUuids
    /\ reported = <<>>
    /\ driven_exit = -1
    /\ sys_exit = -1

\* the extractors do not run
ExtractIdle ==
    /\ extractor = "v4"
    /\ output_text = <<>>
    /\ epc = "done"
    /\ printed = 0
    /\ vm_uuid = <<>>
    /\ task_uuid = <<>>
    /\ raised = "none"

\* main() of a readiness script has reached the call of its function
MainAtCall ==
    /\ argc = 2
    /\ config = "ok"
    /\ prompted = TRUE
    /\ wpc = "closed"
    /\ process_exit = -1

\* no readiness script runs
MainIdle ==
    /\ argc = 2
    /\ config = "ok"
    /\ prompted = FALSE
    /\ wpc = "closed"
    /\ process_exit = -1

\* seconds slept between two attempts (time.sleep(30))
SleepSeconds == 30

MaxAttemptsMutantOneMore(minutes) == minutes * 2 + 1
\* get_vm_ip.py line 27
MaxAttempts(minutes) == minutes * 2

NoResult == [status |-> "NONE", ip_address |-> None, power_state |-> "UNKNOWN"]
NoFile == [status |-> "ABSENT", ip_address |-> None, power_state |-> "UNKNOWN"]

\* result files an earlier run may have left behind
EarlierFiles ==
    {NoFile,
     [status |-> "SUCCESS", ip_address |-> "10.0.0.5", power_state |-> "ON"],
     [status |-> "PENDING", ip_address |-> None, power_state |-> "ON"]}

ReadyInit ==
    /\ script \in {"get_vm_ip", "check_vm_status"}
    /\ pc = IF script = "get_vm_ip" THEN "loop" ELSE "call"
    /\ max_wait_minutes \in (IF script = "get_vm_ip" THEN 0..MaxWait ELSE {0})
    /\ attempt = 0
    /\ queries = 0
    /\ clock = 0
    /\ vm_data = [bound |-> FALSE, power_state |-> "UNKNOWN"]
    /\ result = NoResult
    /\ ret = "NONE"
    /\ file \in EarlierFiles
    /\ wrote = 0
    /\ assignedAt = 0
    /\ assignedIps = {}
    /\ sawQualifying = FALSE
    /\ transportFailures = 0
    /\ lastKind = "none"
    /\ lastAttempt = -1
    /\ firstListed = None
    /\ lastListed = {}
    /\ httpErrors = 0

\* the categories each script's own test names (get_vm_ip.py line 62,
\* check_vm_status.py line 66)
Categories(poll) == IF poll THEN {"ASSIGNED"} ELSE {"ASSIGNED", "LEARNED"}

\* What one response shows a script: the outcome of the script's own scan
\* (found), and what the response lists, for the history variables.  The
\* scripts read nothing else of a response.
Seen(r, poll) ==
    LET ok == ~r.exception /\ r.status_code = 200
    IN  [exception |-> r.exception,
         ok |-> ok,
         power_state |-> r.power_state,
         found |-> IF ok THEN ScanNics(r.nic_list, poll) ELSE None,
         qualifying |-> ok /\ ListedAt(r.nic_list, {"ASSIGNED", "LEARNED"}) # {},
         assigned |-> IF ok THEN ListedIps(r.nic_list, {"ASSIGNED"}) ELSE {},
         first |-> IF ok THEN FirstListed(r.nic_list, Categories(poll)) ELSE None,
         listed |-> IF ok THEN ListedIps(r.nic_list, Categories(poll)) ELSE {}]

\* the responses as get_vm_ip.py and as check_vm_status.py see them
PollSeen == {Seen(r, TRUE) : r \in Responses}
StatusSeen == {Seen(r, FALSE) : r \in Responses}

\* the history variables after an attempt that saw s
Observe(s) ==
    /\ lastAttempt' = attempt
    /\ lastKind' = IF s.exception THEN "exception" ELSE IF s.ok THEN "ok" ELSE "http_error"
    /\ transportFailures' = transportFailures + (IF s.exception THEN 1 ELSE 0)
    /\ sawQualifying' = (sawQualifying \/ s.qualifying)
    /\ httpErrors' = httpErrors + (IF ~s.exception /\ ~s.ok THEN 1 ELSE 0)
    /\ firstListed' = IF s.ok THEN s.first ELSE firstListed
    /\ lastListed' = IF s.ok THEN s.listed ELSE lastListed
    /\ IF assignedAt = 0 /\ s.assigned # {}
       THEN assignedAt' = attempt + 1 /\ assignedIps' = s.assigned
       ELSE UNCHANGED <<assignedAt, assignedIps>>

(***************************************************************************)
(* get_vm_ip.py                                                            *)
(***************************************************************************)
ReturnsMutantOnFailure(s) == s.found # None \/ ~s.ok
\* the only return inside the loop (lines 62-70): an accepted address was found;
\* the except clause and the non-200 branch fall through to line 85
Returns(s) == s.found # None

TimeoutResultMutantError(data) ==
    [status |-> IF data.bound THEN "TIMEOUT" ELSE "ERROR", ip_address |-> None,
     power_state |-> IF data.bound THEN data.power_state ELSE "UNKNOWN"]
\* the dict returned after the loop (lines 89-95)
TimeoutResult(data) ==
    [status |-> "TIMEOUT", ip_address |-> None,
     power_state |-> IF data.bound THEN data.power_state ELSE "UNKNOWN"]

\* one iteration of the loop of get_vm_ip_address (lines 32-86): the request,
\* the scan of the response, the return on an accepted address, the sleep
PollAttempt ==
    /\ script = "get_vm_ip" /\ pc = "loop"
    /\ attempt < MaxAttempts(max_wait_minutes)
    /\ queries' = queries + 1
    /\ \E s \in PollSeen :
            /\ Observe(s)
            /\ vm_data' = IF s.ok THEN [bound |-> TRUE, power_state |-> s.power_state]
                          ELSE vm_data
            /\ IF Returns(s)
               THEN /\ result' = [status |-> "SUCCESS", ip_address |-> s.found,
                                   power_state |-> s.power_state]
                    /\ pc' = "returned"
                    /\ UNCHANGED <<attempt, clock>>
               ELSE /\ clock' = IF attempt < MaxAttempts(max_wait_minutes) - 1
                                THEN clock + SleepSeconds ELSE clock
                    /\ attempt' = attempt + 1
                    /\ UNCHANGED <<result, pc>>
    /\ UNCHANGED <<script, max_wait_minutes, ret, file, wrote>>
    /\ UNCHANGED outsideReady

\* the loop is exhausted (lines 88-95)
PollTimeout ==
    /\ script = "get_vm_ip" /\ pc = "loop"
    /\ attempt >= MaxAttempts(max_wait_minutes)
    /\ result' = TimeoutResult(vm_data)
    /\ pc' = "returned"
    /\ UNCHANGED <<script, max_wait_minutes, attempt, queries, clock, vm_data, ret, file,
                   wrote, history>>
    /\ UNCHANGED outsideReady

\* main saves the result (lines 123-126)
PollSave ==
    /\ script = "get_vm_ip" /\ pc = "returned"
    /\ file' = result
    /\ wrote' = wrote + 1
    /\ pc' = "saved"
    /\ UNCHANGED <<script, max_wait_minutes, attempt, queries, clock, vm_data, result, ret,
                   history>>
    /\ UNCHANGED outsideReady

(***************************************************************************)
(* check_vm_status.py                                                      *)
(***************************************************************************)
\* check_vm_status (lines 16-115): one request, the scan, the result file
CheckVmStatus ==
    /\ script = "check_vm_status" /\ pc = "call"
    /\ queries' = queries + 1
    /\ \E s \in StatusSeen :
            /\ Observe(s)
            /\ vm_data' = IF s.ok THEN [bound |-> TRUE, power_state |-> s.power_state]
                          ELSE vm_data
            /\ IF ~s.ok
               THEN /\ ret' = "False"
                    /\ UNCHANGED <<file, wrote>>
               ELSE IF s.found # None
               THEN /\ file' = [status |-> "SUCCESS", ip_address |-> s.found,
                                 power_state |-> s.power_state]
                    /\ wrote' = wrote + 1
                    /\ ret' = "True"
               ELSE /\ file' = [status |-> "PENDING", ip_address |-> None,
                                 power_state |-> s.power_state]
                    /\ wrote' = wrote + 1
                    /\ ret' = "False"
    /\ pc' = "returned"
    /\ UNCHANGED <<script, max_wait_minutes, attempt, clock, result>>
    /\ UNCHANGED outsideReady

\* return codes of the driven program
ReturnCodes == {0, 1, 3}

(***************************************************************************)
(* deploy_vm_automated_v2.py / _v3.py: run_automated_deployment            *)
(***************************************************************************)
DriverInit ==
    /\ version \in {"v2", "v3"}
    /\ dpc = "start"
    /\ automation_data \in AutomationRequests
    /\ inputs_queue = <<>>
    /\ passwords = [admin_password |-> <<>>, pc_password |-> <<>>]
    /\ builtins_input = "original"
    /\ getpass_getpass = "original"
    /\ builtins_print = "original"
    /\ sys_argv = "original"
    /\ stdout = <<>>
    /\ exit_code = -1
    /\ lastCall = NoCall
    /\ handed = <<>>
    /\ secretAsked = FALSE

\* no step of run_automated_deployment is taken; what builtins.print is bound
\* to is left open
DriverAtRest ==
    /\ version = "v2"
    /\ dpc = "done"
    /\ automation_data = [vm_name |-> Absent, proceed_deployment |-> Absent,
                          admin_password |-> Absent, pc_password |-> Absent]
    /\ inputs_queue = <<>>
    /\ passwords = [admin_password |-> <<>>, pc_password |-> <<>>]
    /\ builtins_input = "original"
    /\ getpass_getpass = "original"
    /\ sys_argv = "original"
    /\ stdout = <<>>
    /\ exit_code = -1
    /\ lastCall = NoCall
    /\ handed = <<>>
    /\ secretAsked = FALSE

\* the wrappers do not run
DriverIdle == DriverAtRest /\ builtins_print = "original"

\* the readiness scripts do not run
ReadyIdle ==
    /\ script = "none"
    /\ pc = "none"
    /\ max_wait_minutes = 0
    /\ attempt = 0
    /\ queries = 0
    /\ clock = 0
    /\ vm_data = [bound |-> FALSE, power_state |-> "UNKNOWN"]
    /\ result = NoResult
    /\ ret = "NONE"
    /\ file = NoFile
    /\ wrote = 0
    /\ assignedAt = 0
    /\ assignedIps = {}
    /\ sawQualifying = FALSE
    /\ transportFailures = 0
    /\ httpErrors = 0
    /\ lastKind = "none"
    /\ lastAttempt = -1
    /\ firstListed = None
    /\ lastListed = {}

LeaveMutantKeepPrint(code, lines) ==
    /\ builtins_input' = "original"
    /\ getpass_getpass' = "original"
    /\ builtins_print' = builtins_print
    /\ sys_argv' = "original"
    /\ stdout' = lines \o <<<<">>> Restored original input functions">>>>
    /\ exit_code' = code
    /\ dpc' = "done"
\* how run_automated_deployment is left once the driven program has ended: the
\* inner finally clause (v2 lines 166-168, v3 lines 121-123) restores sys.argv,
\* the outer one (v2 lines 194-199, v3 lines 144-148) restores builtins.input,
\* getpass.getpass and, in v2, builtins.print
Leave(code, lines) ==
    /\ builtins_input' = "original"
    /\ getpass_getpass' = "original"
    /\ builtins_print' = "original"
    /\ sys_argv' = "original"
    /\ stdout' = lines \o <<<<">>> Restored original input functions">>>>
    /\ exit_code' = code
    /\ dpc' = "done"

\* v2 lines 79-164, v3 lines 77-119: the summary, the queue, the passwords, the
\* patches (builtins.print in v2 only), sys.argv, up to the call of exec_module
Patch ==
    /\ dpc = "start"
    /\ inputs_queue' = InputsQueue(automation_data)
    /\ passwords' = Passwords(automation_data)
    /\ builtins_input' = "automated_input"
    /\ getpass_getpass' = "automated_getpass"
    /\ builtins_print' = IF version = "v2" THEN "capture_print" ELSE builtins_print
    /\ sys_argv' = "deploy"
    /\ stdout' = Summary(automation_data)
                    \o <<<<">>> Patched input functions for automation">>>>
    /\ dpc' = "running"
    /\ UNCHANGED <<version, automation_data, exit_code, lastCall, handed, secretAsked>>
    /\ UNCHANGED outsideDriver

\* the driven program calls input(prompt).  A RecursionError raised in the call
\* either leaves the driven program (handled = FALSE) and is caught by the
\* wrapper's `except Exception` (v2 lines 187-192), or is handled inside it.
CallInput(prompt) ==
    /\ dpc = "running"
    /\ LET call == IF builtins_input = "automated_input"
                   THEN AutomatedInput(inputs_queue, builtins_input, 0)
                   ELSE [via |-> "original", response |-> <<>>, queue |-> inputs_queue,
                         depth |-> 0]
           exhausted == builtins_input = "automated_input" /\ inputs_queue = <<>>
       IN  /\ inputs_queue' = call.queue
           /\ handed' = IF call.via = "queue" THEN Append(handed, call.response) ELSE handed
           /\ \/ /\ call.via = "queue"
                 /\ lastCall' = [kind |-> "input", prompt |-> prompt, value |-> call.response,
                                 via |-> "queue", exhausted |-> exhausted,
                                 reentries |-> call.depth]
                 /\ stdout' = <<prompt \o call.response>>
                 /\ UNCHANGED <<builtins_input, getpass_getpass, builtins_print, sys_argv,
                                          exit_code, dpc>>
              \/ /\ call.via = "original"
                 /\ \E typed \in TypedAnswers :
                        lastCall' = [kind |-> "input", prompt |-> prompt, value |-> typed,
                                     via |-> "original", exhausted |-> exhausted,
                                     reentries |-> call.depth]
                 /\ stdout' = <<prompt>>
                 /\ UNCHANGED <<builtins_input, getpass_getpass, builtins_print, sys_argv,
                                          exit_code, dpc>>
              \/ /\ call.via = "RecursionError"
                 /\ lastCall' = [kind |-> "input", prompt |-> prompt, value |-> <<>>,
                                 via |-> "RecursionError", exhausted |-> exhausted,
                                 reentries |-> call.depth]
                 /\ \E handled \in BOOLEAN :
                        IF handled
                        THEN /\ stdout' = <<>>
                             /\ UNCHANGED <<builtins_input, getpass_getpass, builtins_print, sys_argv,
                                          exit_code, dpc>>
                        ELSE Leave(1, <<<<"[ERROR] Error during automated deployment: ",
                                          "maximum recursion depth exceeded">>>>)
    /\ UNCHANGED <<version, automation_data, passwords, secretAsked>>
    /\ UNCHANGED outsideDriver

\* the driven program calls getpass.getpass(prompt) (automated_getpass, v2 lines 40-53)
CallGetpass(prompt) ==
    /\ dpc = "running"
    /\ getpass_getpass = "automated_getpass"
    /\ LET password == SelectPassword(prompt, passwords)
       IN  /\ stdout' = <<EchoSecret(prompt, password)>>
           /\ lastCall' = [kind |-> "getpass", prompt |-> prompt, value |-> password,
                           via |-> "rules", exhausted |-> FALSE, reentries |-> 0]
    /\ secretAsked' = TRUE
    /\ UNCHANGED <<version, dpc, automation_data, inputs_queue, passwords, builtins_input,
                   getpass_getpass, builtins_print, sys_argv, exit_code, handed>>
    /\ UNCHANGED outsideDriver

AskInput == \E prompt \in InputPrompts : CallInput(prompt)

AskSecret == \E prompt \in SecretPrompts : CallGetpass(prompt)

\* the driven program runs to its end (v2 lines 165-192, v3 lines 119-142).
\* v2 then prints the "VM UUID: " line through capture_print, which is still
\* installed as builtins.print; the exception it raises there ends the run
\* through `except Exception`.
ModuleReturns ==
    /\ dpc = "running"
    /\ LET closing == CapturePrint(MarkerVm \o <<" ">>, builtins_print, 0, Absent, Absent)
       IN  IF closing.raised # "none"
           THEN Leave(1, <<<<"[ERROR] Error during automated deployment: ",
                             "maximum recursion depth exceeded">>>>)
           ELSE Leave(0, <<<<">>> Automated deployment completed">>>>)
    /\ UNCHANGED <<version, automation_data, inputs_queue, passwords, lastCall, handed,
                   secretAsked>>
    /\ UNCHANGED outsideDriver

\* the driven program raises an Exception (v2 lines 187-192)
ModuleRaises ==
    /\ dpc = "running"
    /\ Leave(1, <<<<"[ERROR] Error during automated deployment: ", "error">>>>)
    /\ UNCHANGED <<version, automation_data, inputs_queue, passwords, lastCall, handed,
                   secretAsked>>
    /\ UNCHANGED outsideDriver

\* the driven program calls sys.exit(n): SystemExit is not an Exception, so
\* `except Exception` (v2 line 187, v3 line 140) lets it pass; both finally
\* clauses run and the process exits with n
ModuleExits ==
    /\ dpc = "running"
    /\ \E n \in ReturnCodes : Leave(n, <<>>)
    /\ UNCHANGED <<version, automation_data, inputs_queue, passwords, lastCall, handed,
                   secretAsked>>
    /\ UNCHANGED outsideDriver

DriverNext ==
    \/ Patch
    \/ AskInput
    \/ AskSecret
    \/ ModuleReturns
    \/ ModuleRaises
    \/ ModuleExits

DriverSpecInit == ReadyIdle /\ DriverInit /\ ChildIdle /\ MainIdle /\ ExtractIdle

DriverSpec == DriverSpecInit /\ [][DriverNext]_vars

\* automated_getpass as a function of its prompt: the state after the patch,
\* then one call with any prompt text
SecretInit ==
    /\ ReadyIdle /\ ChildIdle /\ MainIdle /\ ExtractIdle
    /\ version \in {"v2", "v3"}
    /\ dpc = "running"
    /\ automation_data \in {d \in AutomationRequests :
                               d.vm_name = Absent /\ d.proceed_deployment = Absent}
    /\ inputs_queue = InputsQueue(automation_data)
    /\ passwords = Passwords(automation_data)
    /\ builtins_input = "automated_input"
    /\ getpass_getpass = "automated_getpass"
    /\ builtins_print = IF version = "v2" THEN "capture_print" ELSE "original"
    /\ sys_argv = "deploy"
    /\ stdout = <<>>
    /\ exit_code = -1
    /\ lastCall = NoCall
    /\ handed = <<>>
    /\ secretAsked = FALSE

AskAnySecret == ~secretAsked /\ \E prompt \in Prompts : CallGetpass(prompt)

SecretNext == AskAnySecret

SecretSpec == SecretInit /\ [][SecretNext]_vars

(***************************************************************************)
(* deploy_vm_automated.py / _v4.py: the out-of-process wrappers, and the   *)
(* interactive pass-through of all four wrappers                           *)
(***************************************************************************)

\* what the child writes to its standard output
ChildOutputs ==
    {<<>>,
     <<"V", "M", " ", "U", "U", "I", "D", ":", " ", "1", "1", "1", "1", "1", "1", "1", "1", "-", "2", "2", "2", "2", "-", "3", "3", "3", "3", "-", "4", "4", "4", "4", "-", "5", "5", "5", "5", "5", "5", "5", "5", "5", "5", "5", "5">> \o <<"\n">>,
     <<"V", "M", " ", "U", "U", "I", "D", ":", " ", "1", "1", "1", "1", "1", "1", "1", "1", "-", "2", "2", "2", "2", "-", "3", "3", "3", "3", "-", "4", "4", "4", "4", "-", "5", "5", "5", "5", "5", "5", "5", "5", "5", "5", "5", "5">> \o <<"\n">> \o <<"T", "a", "s", "k", " ", "U", "U", "I", "D", ":", " ", "0", "a", "1", "b", "2", "c", "3", "d", "-", "4", "e", "5", "f", "-", "6", "a", "7", "b", "-", "8", "c", "9", "d", "-", "0", "e", "1", "f", "2", "a", "3", "b", "4", "c", "5", "d">> \o <<"\n">>}

\* the list of answers: v1 lines 50-54 (inputs), v4 lines 109-115 (automation_inputs)
AutomationInputs(w, data) ==
    IF w = "v1"
    THEN <<Get(data.vm_name, <<>>), Get(data.proceed_deployment, <<"y">>), <<>>>>
    ELSE <<Get(data.vm_name, <<>>), <<"y">>, Get(data.admin_password, <<>>),
           Get(data.admin_password, <<>>), Get(data.pc_password, <<>>)>>

\* '\n'.join(inputs) + '\n' (v1 line 58, v4 line 132)
InputString(w, data) == Join(AutomationInputs(w, data)) \o <<"\n">>

RECURSIVE WriteLines(_)
\* v4 lines 124-125: f.write(input_line + '\n') for every answer
WriteLines(lines) ==
    IF lines = <<>> THEN <<>> ELSE Head(lines) \o <<"\n">> \o WriteLines(Tail(lines))

ChildAfterTimeoutMutantLeft == "running"
\* the child after TimeoutExpired: v1 line 96 process.kill(); in v4
\* subprocess.run() kills the child and waits for it before it re-raises
ChildAfterTimeout == "killed"

ExitStatusMutantFlag(rc) == IF rc = 0 THEN 0 ELSE 1
\* the process exit status after the child ended with return code rc: v1 lines
\* 92 and 103-105 (the Popen object is truthy), v4 lines 162 and 183-184
ExitStatus(rc) == rc

\* how the driven program can end when it is executed in-process, and the exit
\* code it ends with by itself: it runs to its end, it calls sys.exit(n), or it
\* raises
DrivenOutcomes ==
    {[kind |-> "returns", code |-> 0], [kind |-> "raises", code |-> 1]}
    \cup {[kind |-> "SystemExit", code |-> n] : n \in ReturnCodes}

InteractiveExitMutantZero(w, outcome) == 0
\* the process exit status of the interactive mode.  v1 lines 37 and 103-105:
\* the CompletedProcess is truthy, its returncode is passed to sys.exit.  v2-v4
\* (v4 lines 90-103, 183-184): exec_module returns and 0 is returned, or the
\* SystemExit or the exception of the driven program leaves the wrapper.
InteractiveExit(w, outcome) ==
    IF w = "v1" THEN outcome.code
    ELSE IF outcome.kind = "returns" THEN 0
    ELSE IF outcome.kind = "SystemExit" THEN outcome.code
    ELSE 1

ChildInit ==
    /\ wrapper \in {"v1", "v2", "v3", "v4"}
    /\ request \in {"loaded", "unset", "missing", "unreadable"}
    /\ (wrapper \in {"v2", "v3"} => request # "loaded")
    /\ cpc = "start"
    /\ child = "none"
    /\ child_stdin = <<>>
    /\ stdin_writes = 0
    /\ output_read = FALSE
    /\ input_file = NoInputFile
    /\ returncode = -1
    /\ uuids = NoUuids
    /\ reported = <<>>
    /\ driven_exit = -1
    /\ sys_exit = -1

\* v1 lines 32-84, v4 lines 85-136: the answers are put together, v4 writes
\* them to a temporary file, the child is started and communicate() writes
\* the input string to its standard input
StartChild ==
    /\ cpc = "start" /\ request = "loaded" /\ wrapper \in {"v1", "v4"}
    /\ child' = "running"
    /\ child_stdin' = InputString(wrapper, automation_data)
    /\ stdin_writes' = stdin_writes + 1
    /\ input_file' = IF wrapper = "v4"
                      THEN [exists |-> TRUE,
                            content |-> WriteLines(AutomationInputs(wrapper, automation_data))]
                      ELSE input_file
    /\ cpc' = "communicate"
    /\ UNCHANGED <<wrapper, request, output_read, returncode, uuids, reported,
                   driven_exit, sys_exit>>
    /\ UNCHANGED <<driverVars, outsideChild>>

\* the child ends before the deadline: v1 lines 84-92 and 103-105, v4 lines
\* 138-162, 171-176 and 183-184
ChildExits ==
    /\ cpc = "communicate" /\ child = "running"
    /\ \E rc \in ReturnCodes, output \in ChildOutputs :
          LET found == ExtractUuidsFromOutput(output)
          IN  /\ child' = "exited"
              /\ returncode' = rc
              /\ driven_exit' = rc
              /\ output_read' = TRUE
              /\ uuids' = IF wrapper = "v4"
                          THEN [done |-> TRUE, vm_uuid |-> found.vm_uuid,
                                task_uuid |-> found.task_uuid]
                          ELSE uuids
              /\ reported' = IF wrapper = "v4"
                             THEN <<<<">", ">", ">", " ", "D", "e", "p", "l", "o", "y", "m", "e", "n", "t", " ", "s", "u", "b", "p", "r", "o", "c", "e", "s", "s", " ", "c", "o", "m", "p", "l", "e", "t", "e", "d">>,
                                    <<"V", "M", " ", "U", "U", "I", "D", ":">> \o <<" ">> \o found.vm_uuid,
                                    <<"T", "a", "s", "k", " ", "U", "U", "I", "D", ":">> \o <<" ">> \o found.task_uuid>>
                             ELSE IF output # <<>> THEN <<output>> ELSE <<>>
              /\ sys_exit' = ExitStatus(rc)
    /\ input_file' = NoInputFile
    /\ cpc' = "exited"
    /\ UNCHANGED <<wrapper, request, child_stdin, stdin_writes>>
    /\ UNCHANGED <<driverVars, outsideChild>>

\* communicate() raises TimeoutExpired: v1 lines 94-97 and 106-107, v4 lines
\* 164-166, 171-176 and 183-184
DeadlineFires ==
    /\ cpc = "communicate" /\ child = "running"
    /\ child' = ChildAfterTimeout
    /\ reported' = <<<<"D", "e", "p", "l", "o", "y", "m", "e", "n", "t", " ", "t", "i", "m", "e", "d", " ", "o", "u", "t", " ", "a", "f", "t", "e", "r", " ", "5", " ", "m", "i", "n", "u", "t", "e", "s">>>>
    /\ sys_exit' = 1
    /\ input_file' = NoInputFile
    /\ cpc' = "exited"
    /\ UNCHANGED <<wrapper, request, child_stdin, stdin_writes, output_read, returncode,
                   uuids, driven_exit>>
    /\ UNCHANGED <<driverVars, outsideChild>>

\* no automation data: v1 lines 34-37 run the driven program as a child that
\* inherits the terminal; v2-v4 (v4 lines 87-103) execute it in-process
RunInteractive ==
    /\ cpc = "start" /\ request # "loaded"
    /\ \E outcome \in DrivenOutcomes :
          /\ driven_exit' = outcome.code
          /\ sys_exit' = InteractiveExit(wrapper, outcome)
          /\ IF wrapper = "v1"
             THEN child' = "exited" /\ returncode' = outcome.code
             ELSE UNCHANGED <<child, returncode>>
    /\ reported' = <<<<"N", "o", " ", "a", "u", "t", "o", "m", "a", "t", "i", "o", "n", " ", "d", "a", "t", "a", " ", "f", "o", "u", "n", "d", ".", " ", "R", "u", "n", "n", "i", "n", "g", " ", "i", "n", " ", "i", "n", "t", "e", "r", "a", "c", "t", "i", "v", "e", " ", "m", "o", "d", "e", ".">>>>
    /\ cpc' = "exited"
    /\ UNCHANGED <<wrapper, request, child_stdin, stdin_writes, output_read, input_file,
                   uuids>>
    /\ UNCHANGED <<driverVars, outsideChild>>

ChildNext ==
    \/ StartChild
    \/ ChildExits
    \/ DeadlineFires
    \/ RunInteractive

ChildSpecInit ==
    /\ ReadyIdle /\ MainIdle /\ ExtractIdle
    /\ ChildInit
    /\ version = "v2"
    /\ dpc = "done"
    /\ automation_data \in AutomationRequests
    /\ inputs_queue = <<>>
    /\ passwords = [admin_password |-> <<>>, pc_password |-> <<>>]
    /\ builtins_input = "original"
    /\ getpass_getpass = "original"
    /\ builtins_print = "original"
    /\ sys_argv = "original"
    /\ stdout = <<>>
    /\ exit_code = -1
    /\ lastCall = NoCall
    /\ handed = <<>>
    /\ secretAsked = FALSE

ChildSpec == ChildSpecInit /\ [][ChildNext]_vars

(***************************************************************************)
(* The output extractors applied to a text                                 *)
(***************************************************************************)
\* most lines of an emitted text
MaxLines == 2

\* lines a driven program may emit: labelled and unlabelled, with identifiers
\* in lower and in upper case, malformed ones, one before the label, none
OutputLines ==
    {<<"V", "M", " ", "U", "U", "I", "D", ":", " ", "1", "1", "1", "1", "1", "1", "1", "1", "-", "2", "2", "2", "2", "-", "3", "3", "3", "3", "-", "4", "4", "4", "4", "-", "5", "5", "5", "5", "5", "5", "5", "5", "5", "5", "5", "5">>,
     <<"V", "M", " ", "U", "U", "I", "D", ":", " ", "0", "a", "1", "b", "2", "c", "3", "d", "-", "4", "e", "5", "f", "-", "6", "a", "7", "b", "-", "8", "c", "9", "d", "-", "0", "e", "1", "f", "2", "a", "3", "b", "4", "c", "5", "d">>,
     <<"T", "a", "s", "k", " ", "U", "U", "I", "D", ":", " ", "1", "1", "1", "1", "1", "1", "1", "1", "-", "2", "2", "2", "2", "-", "3", "3", "3", "3", "-", "4", "4", "4", "4", "-", "5", "5", "5", "5", "5", "5", "5", "5", "5", "5", "5", "5">>,
     <<"T", "a", "s", "k", " ", "U", "U", "I", "D", ":", " ", "0", "a", "1", "b", "2", "c", "3", "d", "-", "4", "e", "5", "f", "-", "6", "a", "7", "b", "-", "8", "c", "9", "d", "-", "0", "e", "1", "f", "2", "a", "3", "b", "4", "c", "5", "d">>,
     <<"V", "M", " ", "U", "U", "I", "D", ":", " ", "A", "B", "C", "D", "E", "F", "0", "1", "-", "2", "3", "4", "5", "-", "6", "7", "8", "9", "-", "A", "B", "C", "D", "-", "E", "F", "0", "1", "2", "3", "4", "5", "6", "7", "8", "9">>,
     <<"V", "M", " ", "U", "U", "I", "D", ":", " ">>,
     <<"V", "M", " ", "U", "U", "I", "D", ":", " ", "1", "1", "1", "1", "-", "2", "2">>,
     <<"i", "d", " ", "0", "a", "1", "b", "2", "c", "3", "d", "-", "4", "e", "5", "f", "-", "6", "a", "7", "b", "-", "8", "c", "9", "d", "-", "0", "e", "1", "f", "2", "a", "3", "b", "4", "c", "5", "d", " ", "V", "M", " ", "U", "U", "I", "D", ":", " ", "1", "1", "1", "1", "1", "1", "1", "1", "-", "2", "2", "2", "2", "-", "3", "3", "3", "3", "-", "4", "4", "4", "4", "-", "5", "5", "5", "5", "5", "5", "5", "5", "5", "5", "5", "5">>,
     <<"D", "e", "p", "l", "o", "y", "m", "e", "n", "t", " ", "d", "o", "n", "e">>,
     <<"c", "r", "e", "a", "t", "e", "d", " ", "1", "1", "1", "1", "1", "1", "1", "1", "-", "2", "2", "2", "2", "-", "3", "3", "3", "3", "-", "4", "4", "4", "4", "-", "5", "5", "5", "5", "5", "5", "5", "5", "5", "5", "5", "5">>,
     <<"T", "a", "s", "k", " ", "U", "U", "I", "D", ":", " ", "p", "e", "n", "d", "i", "n", "g">>,
     <<"V", "M", " ", "U", "U", "I", "D", ":", " ", "1", "1", "1", "1", "1", "1", "1", "1", "-", "2", "2", "2", "2", "-", "3", "3", "3", "3", "-", "4", "4", "4", "4", "-", "5", "5", "5", "5", "5", "5", "5", "5", "5", "5", "5", "5", " ", "T", "a", "s", "k", " ", "U", "U", "I", "D", ":", " ", "0", "a", "1", "b", "2", "c", "3", "d", "-", "4", "e", "5", "f", "-", "6", "a", "7", "b", "-", "8", "c", "9", "d", "-", "0", "e", "1", "f", "2", "a", "3", "b", "4", "c", "5", "d">>}

RECURSIVE LineSeqsUpTo(_)
LineSeqsUpTo(n) ==
    IF n = 0 THEN {<<>>}
    ELSE {<<>>} \cup {<<line>> \o rest : line \in OutputLines, rest \in LineSeqsUpTo(n - 1)}

\* the texts: at most MaxLines lines joined by newlines
OutputTexts == {Join(lines) : lines \in LineSeqsUpTo(MaxLines)}

ExtractInit ==
    /\ extractor \in {"v4", "v2"}
    /\ output_text \in OutputTexts
    /\ epc = "start"
    /\ printed = 0
    /\ builtins_print = IF extractor = "v2" THEN "capture_print" ELSE "original"
    /\ vm_uuid = IF extractor = "v2" THEN Absent ELSE <<>>
    /\ task_uuid = IF extractor = "v2" THEN Absent ELSE <<>>
    /\ raised = "none"

\* v4 line 142: extract_uuids_from_output(output)
ExtractUuids ==
    /\ epc = "start" /\ extractor = "v4"
    /\ LET found == ExtractUuidsFromOutput(output_text)
       IN  vm_uuid' = found.vm_uuid /\ task_uuid' = found.task_uuid
    /\ epc' = "done"
    /\ UNCHANGED <<extractor, output_text, printed, raised>>
    /\ UNCHANGED outsideExtract

\* v2: the driven program passes its next line to print(), which line 145 has
\* bound to capture_print; an exception raised there ends the run of the
\* driven program
CapturePrintCall ==
    /\ epc = "start" /\ extractor = "v2"
    /\ LET messages == Split(output_text)
           call == CapturePrint(messages[printed + 1], builtins_print, 0, vm_uuid, task_uuid)
       IN  /\ vm_uuid' = call.vm_uuid
           /\ task_uuid' = call.task_uuid
           /\ raised' = call.raised
           /\ printed' = printed + call.forwarded
           /\ epc' = IF call.raised # "none" \/ printed + 1 = Len(messages)
                     THEN "done" ELSE "start"
    /\ UNCHANGED <<extractor, output_text>>
    /\ UNCHANGED outsideExtract

ExtractNext ==
    \/ ExtractUuids
    \/ CapturePrintCall

ExtractSpecInit ==
    /\ ReadyIdle /\ DriverAtRest /\ ChildIdle /\ MainIdle
    /\ ExtractInit

ExtractSpec == ExtractSpecInit /\ [][ExtractNext]_vars

(***************************************************************************)
(* get_vm_ip.py / check_vm_status.py: main()                               *)
(***************************************************************************)
\* deployment_config.json: complete, not there, without one of the two keys,
\* or not JSON
Configs == {"ok", "absent", "no_pc_ip", "no_username", "invalid"}

\* len(sys.argv)
ArgCounts == {1, 2, 3}

LoadConfigMutantDefaults(cfg) ==
    IF cfg = "absent" THEN "FileNotFoundError"
    ELSE IF cfg = "invalid" THEN "JSONDecodeError"
    ELSE "ok"
\* get_vm_ip.py lines 105-115: open(), json.load(), config['pc_ip'],
\* config['username']; what the try block raises, "ok" if nothing
LoadConfig(cfg) ==
    IF cfg = "absent" THEN "FileNotFoundError"
    ELSE IF cfg = "invalid" THEN "JSONDecodeError"
    ELSE IF cfg \in {"no_pc_ip", "no_username"} THEN "KeyError"
    ELSE "ok"

MainInit ==
    /\ script \in {"get_vm_ip", "check_vm_status"}
    /\ pc = "main"
    /\ max_wait_minutes \in (IF script = "get_vm_ip" THEN 0..MaxWait ELSE {0})
    /\ attempt = 0
    /\ queries = 0
    /\ clock = 0
    /\ vm_data = [bound |-> FALSE, power_state |-> "UNKNOWN"]
    /\ result = NoResult
    /\ ret = "NONE"
    /\ file \in EarlierFiles
    /\ wrote = 0
    /\ assignedAt = 0
    /\ assignedIps = {}
    /\ sawQualifying = FALSE
    /\ transportFailures = 0
    /\ httpErrors = 0
    /\ lastKind = "none"
    /\ lastAttempt = -1
    /\ firstListed = None
    /\ lastListed = {}
    /\ argc \in ArgCounts
    /\ config \in Configs
    /\ prompted = FALSE
    /\ wpc = "closed"
    /\ process_exit = -1

\* main() up to the call of the function (get_vm_ip.py lines 97-121,
\* check_vm_status.py lines 117-142): the argument check, the configuration,
\* the password prompt.  sys.exit(1) ends the process; a JSONDecodeError is not
\* caught and ends it with status 1 as well.
MainStart ==
    /\ pc = "main"
    /\ IF argc # 2 \/ LoadConfig(config) # "ok"
       THEN /\ process_exit' = 1
            /\ pc' = "exited"
            /\ UNCHANGED prompted
       ELSE /\ prompted' = TRUE
            /\ pc' = IF script = "get_vm_ip" THEN "loop" ELSE "call"
            /\ UNCHANGED process_exit
    /\ UNCHANGED <<script, max_wait_minutes, attempt, queries, clock, vm_data, result, ret,
                   file, wrote, history, argc, config, wpc>>
    /\ UNCHANGED <<driverVars, childVars, extractVars>>

\* main() after the function (get_vm_ip.py lines 128-138, check_vm_status.py
\* lines 144-149): the closing lines are printed, main returns, and the
\* interpreter exits with status 0
MainReturns ==
    /\ process_exit = -1
    /\ \/ script = "get_vm_ip" /\ pc = "saved"
       \/ script = "check_vm_status" /\ pc = "returned"
    /\ process_exit' = 0
    /\ UNCHANGED <<readyVars, argc, config, prompted, wpc>>
    /\ UNCHANGED <<driverVars, childVars, extractVars>>

MainNext ==
    \/ MainStart
    \/ PollAttempt
    \/ PollTimeout
    \/ PollSave
    \/ CheckVmStatus
    \/ MainReturns

MainSpecInit == MainInit /\ DriverIdle /\ ChildIdle /\ ExtractIdle

MainSpec == MainSpecInit /\ [][MainNext]_vars

(***************************************************************************)
(* The result file, step by step                                           *)
(***************************************************************************)
\* temp/vm-details.json after open(result_file, 'w') has truncated it, and
\* with only the first part of the record in it
EmptyFile == [status |-> "EMPTY", ip_address |-> None, power_state |-> "UNKNOWN"]
PartialFile == [status |-> "PARTIAL", ip_address |-> None, power_state |-> "UNKNOWN"]

\* check_vm_status lines 29-83 and 85-115 without the two with-blocks: the
\* request, the scan, and the dict `result` that is to be written
CheckQuery ==
    /\ script = "check_vm_status" /\ pc = "call"
    /\ queries' = queries + 1
    /\ \E s \in StatusSeen :
            /\ Observe(s)
            /\ vm_data' = IF s.ok THEN [bound |-> TRUE, power_state |-> s.power_state]
                          ELSE vm_data
            /\ IF ~s.ok
               THEN /\ ret' = "False"
                    /\ pc' = "returned"
                    /\ UNCHANGED result
               ELSE /\ result' = IF s.found # None
                                  THEN [status |-> "SUCCESS", ip_address |-> s.found,
                                        power_state |-> s.power_state]
                                  ELSE [status |-> "PENDING", ip_address |-> None,
                                        power_state |-> s.power_state]
                    /\ pc' = "scanned"
                    /\ UNCHANGED ret
    /\ UNCHANGED <<script, max_wait_minutes, attempt, clock, file, wrote>>
    /\ UNCHANGED outsideReady

\* the program is about to write, or is writing, the result file
AtSave ==
    \/ script = "get_vm_ip" /\ pc = "returned"
    \/ script = "check_vm_status" /\ pc = "scanned"

\* open(result_file, 'w') (get_vm_ip.py line 124, check_vm_status.py lines 82
\* and 103): the file is created or truncated
OpenResultFile ==
    /\ AtSave /\ wpc = "closed"
    /\ file' = EmptyFile
    /\ wpc' = "open"
    /\ UNCHANGED <<script, pc, max_wait_minutes, attempt, queries, clock, vm_data, result,
                   ret, wrote, history>>
    /\ UNCHANGED <<argc, config, prompted, process_exit>>
    /\ UNCHANGED <<driverVars, childVars, extractVars>>

\* json.dump(result, f, indent=2) (get_vm_ip.py line 125): the record goes,
\* piece by piece, into the buffer of f
DumpResult ==
    /\ AtSave /\ wpc = "open"
    /\ wpc' = "dumped"
    /\ UNCHANGED <<readyVars, argc, config, prompted, process_exit>>
    /\ UNCHANGED <<driverVars, childVars, extractVars>>

\* the end of the with-block: the buffer is flushed and the file closed
CloseResultFile ==
    /\ AtSave /\ wpc = "dumped"
    /\ file' = result
    /\ wrote' = wrote + 1
    /\ wpc' = "closed"
    /\ IF script = "get_vm_ip"
       THEN pc' = "saved" /\ UNCHANGED ret
       ELSE pc' = "returned" /\ ret' = (IF result.status = "SUCCESS" THEN "True" ELSE "False")
    /\ UNCHANGED <<script, max_wait_minutes, attempt, queries, clock, vm_data, result,
                   history>>
    /\ UNCHANGED <<argc, config, prompted, process_exit>>
    /\ UNCHANGED <<driverVars, childVars, extractVars>>

\* the run is interrupted while the file is open.  A KeyboardInterrupt leaves
\* the with-block, which flushes what json.dump has put into the buffer so far
\* (nothing, a part of the record, or all of it); a killed process flushes
\* nothing.
Interrupt ==
    /\ AtSave /\ wpc # "closed"
    /\ \E how \in {"KeyboardInterrupt", "killed"} :
          /\ file' = IF how = "killed" THEN file
                     ELSE IF wpc = "dumped" THEN result
                     ELSE PartialFile
          /\ process_exit' = IF how = "killed" THEN 137 ELSE 130
    /\ pc' = "interrupted"
    /\ UNCHANGED <<script, max_wait_minutes, attempt, queries, clock, vm_data, result,
                   ret, wrote, history>>
    /\ UNCHANGED <<argc, config, prompted, wpc>>
    /\ UNCHANGED <<driverVars, childVars, extractVars>>

SaveNext ==
    \/ PollAttempt
    \/ PollTimeout
    \/ CheckQuery
    \/ OpenResultFile
    \/ DumpResult
    \/ CloseResultFile
    \/ Interrupt

Next ==
    \/ PollAttempt
    \/ PollTimeout
    \/ PollSave
    \/ CheckVmStatus

Init == ReadyInit /\ DriverIdle /\ ChildIdle /\ MainAtCall /\ ExtractIdle

Spec == Init /\ [][Next]_vars

\* Each script is one sequential program whose requests carry timeout=30: a
\* step that can be taken is taken.
LiveSpec == Spec /\ WF_vars(Next)

\* the same runs with the writing of the result file taken step by step
SaveSpec == Init /\ [][SaveNext]_vars

(***************************************************************************)
(* Claims about the readiness scripts                                      *)
(***************************************************************************)
PollReturned == script = "get_vm_ip" /\ pc \in {"returned", "saved"}
StatusReturned == script = "check_vm_status" /\ pc = "returned"

\* C1: for every max_wait_minutes >= 0, a session in which no response ever
\* lists an ASSIGNED address terminates, with status TIMEOUT and a null
\* ip_address, after exactly max_wait_minutes * 2 queries; no session issues
\* more queries than that.
C1_TimeoutAfterAllAttempts ==
    /\ [](script = "get_vm_ip" =>
            /\ queries <= max_wait_minutes * 2
            /\ (PollReturned /\ assignedAt = 0) =>
                   /\ result.status = "TIMEOUT"
                   /\ result.ip_address = None
                   /\ queries = max_wait_minutes * 2)
    /\ <>(script = "get_vm_ip" => PollReturned)

C1_Witness ==
    /\ PollReturned /\ assignedAt = 0 /\ max_wait_minutes = MaxWait
    /\ result.status = "TIMEOUT" /\ queries = 2 * MaxWait
    /\ transportFailures > 0 /\ httpErrors > 0 /\ sawQualifying

\* C2: when the k-th attempt is the first whose response lists an ASSIGNED
\* address, the session has returned SUCCESS after exactly k queries (none is
\* issued afterwards) and the returned ip_address is an ASSIGNED address of
\* that response.
C2_SuccessAtFirstAssigned ==
    (script = "get_vm_ip" /\ assignedAt # 0) =>
        /\ PollReturned
        /\ result.status = "SUCCESS"
        /\ queries = assignedAt
        /\ result.ip_address \in assignedIps

C2_Witness ==
    /\ PollReturned /\ assignedAt = 3 /\ queries = 3 /\ max_wait_minutes = 2
    /\ result.status = "SUCCESS" /\ result.ip_address = "10.0.0.6"

\* C3: the recorded outcome is SUCCESS if and only if some successful query of
\* the session listed a non-empty address of category ASSIGNED or LEARNED, in
\* the polling script and in the one-shot check alike.
C3_SuccessIffQualifying ==
    /\ PollReturned => (result.status = "SUCCESS" <=> sawQualifying)
    /\ StatusReturned => ((wrote > 0 /\ file.status = "SUCCESS") <=> sawQualifying)

\* C4 as claimed: the poller ends in ERROR if and only if every attempt of the
\* session failed at the transport level; such a session is not reported as
\* TIMEOUT.
C4_ErrorIffAllTransportFailed ==
    PollReturned =>
        (result.status = "ERROR" <=> (queries > 0 /\ transportFailures = queries))

\* C4 as amended: the poller never ends in ERROR; a session whose every attempt
\* failed at the transport level uses up all its attempts and is reported as
\* TIMEOUT with a null address and power state UNKNOWN.
C4_AllTransportFailedIsTimeout ==
    PollReturned =>
        /\ result.status \in {"SUCCESS", "TIMEOUT"}
        /\ transportFailures = queries =>
               /\ result = [status |-> "TIMEOUT", ip_address |-> None,
                             power_state |-> "UNKNOWN"]
               /\ queries = max_wait_minutes * 2

C4_Witness ==
    /\ PollReturned /\ queries = 2 * MaxWait /\ transportFailures = queries
    /\ result.status = "TIMEOUT"

C6_FailureDoesNotEndSession ==
    script = "get_vm_ip" =>
        /\ (lastKind \in {"exception", "http_error"}
               /\ lastAttempt < max_wait_minutes * 2 - 1) =>
               (pc = "loop" /\ attempt = lastAttempt + 1 /\ result.status = "NONE")
        /\ (PollReturned /\ transportFailures + httpErrors > 0 /\ assignedAt # 0) =>
               result.status = "SUCCESS"

C6_Witness ==
    /\ PollReturned /\ result.status = "SUCCESS"
    /\ transportFailures > 0 /\ httpErrors > 0 /\ assignedAt = queries


(***************************************************************************)
(* Claims about the in-process wrappers                                    *)
(***************************************************************************)
\* w occurs in the line t (stated by positions)
Occurs(w, t) ==
    \E i \in 1..(Len(t) - Len(w) + 1) : \A j \in 1..Len(w) : t[i + j - 1] = w[j]

\* w occurs in t when letter case is ignored (w is in lower case)
OccursIgnoringCase(w, t) ==
    \E i \in 1..(Len(t) - Len(w) + 1) : \A j \in 1..Len(w) : LowerChar(t[i + j - 1]) = w[j]

\* the answers of the request: the resource name, then the confirmation
Answers == <<Get(automation_data.vm_name, <<>>), Get(automation_data.proceed_deployment, <<"y">>)>>

\* C7: whatever the interleaving of plain-text and secret prompts, the i-th
\* call of the automated input function returns the i-th queued answer
\* (resource name, then confirmation): the answers handed out so far are a
\* prefix of the answers of the request, the queue holds exactly the rest, and
\* a secret prompt changes neither.
C7_AnswersInOrder ==
    dpc = "running" =>
        /\ Len(handed) <= Len(Answers)
        /\ handed = SubSeq(Answers, 1, Len(handed))
        /\ inputs_queue = SubSeq(Answers, Len(handed) + 1, Len(Answers))
        /\ (lastCall.kind = "input" /\ lastCall.via = "queue") =>
               lastCall.value = Answers[Len(handed)]

C7_Witness ==
    /\ dpc = "running" /\ secretAsked /\ handed = <<<<"v", "m", "1">>, <<"n">>>>
    /\ lastCall.kind = "getpass" /\ inputs_queue = <<>>

\* C8: a plain-text prompt asked after the queue is exhausted, with the
\* substitute installed, is answered by the genuine input primitive and does
\* not re-enter the substitute.
C8_FallbackIsGenuineInput ==
    (lastCall.kind = "input" /\ lastCall.exhausted) =>
        (lastCall.via = "original" /\ lastCall.reentries = 0)

PlatformKeywords == {KwPrism, KwPc, KwEnterPasswordFor}
HasAdminKeyword(prompt) ==
    OccursIgnoringCase(KwAdmin, prompt) \/ OccursIgnoringCase(KwAdministrator, prompt)
HasPlatformKeyword(prompt) == \E w \in PlatformKeywords : OccursIgnoringCase(w, prompt)

\* C9 as claimed: a prompt containing "admin" or "administrator" yields the
\* primary secret, a prompt containing "prism", "pc_" or "enter password for"
\* yields the platform secret, any other prompt the primary secret (letter
\* case ignored).
C9_SubstringRules ==
    lastCall.kind = "getpass" =>
        /\ HasAdminKeyword(lastCall.prompt) => lastCall.value = passwords.admin_password
        /\ HasPlatformKeyword(lastCall.prompt) => lastCall.value = passwords.pc_password
        /\ (~HasAdminKeyword(lastCall.prompt) /\ ~HasPlatformKeyword(lastCall.prompt)) =>
               lastCall.value = passwords.admin_password

\* C9 as amended: the rules are tried in order and the first that matches
\* decides: "admin"/"administrator" yields the primary secret even when a
\* platform keyword is present too; otherwise "prism", "pc_" or "enter
\* password for" yields the platform secret; otherwise the primary secret.
C9_FirstMatchingRule ==
    lastCall.kind = "getpass" =>
        /\ HasAdminKeyword(lastCall.prompt) => lastCall.value = passwords.admin_password
        /\ (~HasAdminKeyword(lastCall.prompt) /\ HasPlatformKeyword(lastCall.prompt)) =>
               lastCall.value = passwords.pc_password
        /\ (~HasAdminKeyword(lastCall.prompt) /\ ~HasPlatformKeyword(lastCall.prompt)) =>
               lastCall.value = passwords.admin_password

C9_Witness ==
    /\ lastCall.kind = "getpass"
    /\ HasAdminKeyword(lastCall.prompt) /\ HasPlatformKeyword(lastCall.prompt)
    /\ passwords.admin_password = <<"#">> /\ passwords.pc_password = <<"7", "#">>
    /\ lastCall.value = <<"#">>

\* the secrets of the request
Secrets == {Passwords(automation_data).admin_password, Passwords(automation_data).pc_password}

\* C10: no line written to the output stream holds a secret in clear text; the
\* line echoed for a secret prompt is the prompt followed by as many '*' as
\* the returned secret has characters, and the configuration summary shows
\* each secret as a mask of its length (or as 'Not provided').
C10_SecretsMasked ==
    /\ \A i \in 1..Len(stdout) : \A secret \in Secrets :
           secret # <<>> => ~Occurs(secret, stdout[i])
    /\ (lastCall.kind = "getpass" /\ dpc = "running") =>
           /\ Len(stdout) = 1
           /\ Len(stdout[1]) = Len(lastCall.prompt) + Len(lastCall.value)
           /\ SubSeq(stdout[1], 1, Len(lastCall.prompt)) = lastCall.prompt
           /\ \A j \in (Len(lastCall.prompt) + 1)..Len(stdout[1]) : stdout[1][j] = "*"
    /\ (dpc = "running" /\ lastCall.kind = "none" /\ Len(stdout) >= 5) =>
           \A k \in {4, 5} :
               LET secret == IF k = 4 THEN passwords.admin_password ELSE passwords.pc_password
                   shown == Tail(stdout[k])
               IN  IF secret = <<>> THEN shown = <<"Not provided">>
                   ELSE Len(shown) = Len(secret) /\ \A j \in 1..Len(shown) : shown[j] = "*"

C10_Witness ==
    /\ dpc = "running" /\ lastCall.kind = "getpass" /\ lastCall.value = <<"7", "#">>
    /\ passwords.admin_password = <<"#">>
    /\ stdout = <<lastCall.prompt \o <<"*", "*">>>>

(***************************************************************************)
(* Claims about the out-of-process wrappers                                *)
(***************************************************************************)
\* the answers of the protocol, each followed by a newline
ProtocolText ==
    LET nl == <<"\n">>
        name == Get(automation_data.vm_name, <<>>)
        confirmation == Get(automation_data.proceed_deployment, <<"y">>)
        primary == Get(automation_data.admin_password, <<>>)
        platform == Get(automation_data.pc_password, <<>>)
    IN  name \o nl \o confirmation \o nl \o primary \o nl \o primary \o nl \o platform \o nl

ChildStarted == request = "loaded" /\ cpc \in {"communicate", "exited"}

\* C11: once the child is started its standard input has received, in one
\* write and before any of its output is read, exactly: resource name,
\* deployment confirmation, primary secret, primary secret again, platform
\* secret, each terminated by a newline.
C11_StdinProtocol ==
    ChildStarted =>
        /\ child_stdin = ProtocolText
        /\ stdin_writes = 1
        /\ cpc = "communicate" => ~output_read

TimedOut == ChildStarted /\ cpc = "exited" /\ child # "exited"

\* C12: when the deadline fires while the child runs, the child is killed, the
\* run is reported as a timeout, the wrapper exits with a nonzero status and
\* without reading a result; no child is left running when the wrapper has
\* exited.
C12_TimeoutKillsChild ==
    /\ cpc = "exited" => child # "running"
    /\ TimedOut =>
           /\ child = "killed"
           /\ sys_exit = 1
           /\ reported = <<<<"D", "e", "p", "l", "o", "y", "m", "e", "n", "t", " ", "t", "i", "m", "e", "d", " ", "o", "u", "t", " ", "a", "f", "t", "e", "r", " ", "5", " ", "m", "i", "n", "u", "t", "e", "s">>>>
           /\ returncode = -1 /\ ~uuids.done

C12_Witness ==
    /\ TimedOut /\ wrapper = "v4" /\ child = "killed" /\ sys_exit = 1
    /\ automation_data.admin_password = <<"#">>

\* C13: when the child ends before the deadline with return code n, zero or
\* not, the wrapper has read and reported its output (v4: has extracted the
\* identifiers from it and printed them) and exits with exactly n.
C13_ExitCodeOfChild ==
    (ChildStarted /\ child = "exited") =>
        /\ cpc = "exited"
        /\ sys_exit = returncode /\ returncode \in ReturnCodes
        /\ output_read
        /\ wrapper = "v4" =>
               /\ uuids.done
               /\ Len(reported) = 3
               /\ reported[2] = <<"V", "M", " ", "U", "U", "I", "D", ":">> \o <<" ">> \o uuids.vm_uuid
               /\ reported[3] = <<"T", "a", "s", "k", " ", "U", "U", "I", "D", ":">> \o <<" ">> \o uuids.task_uuid

C13_Witness ==
    /\ ChildStarted /\ child = "exited" /\ wrapper = "v4" /\ sys_exit = 3
    /\ uuids.done /\ uuids.vm_uuid # <<>> /\ uuids.task_uuid = <<>>

\* C14: when no automation request was loaded (variable unset, file missing,
\* file not readable as JSON) the driven program is run without any prepared
\* input and with the genuine prompt primitives, and the wrapper's process
\* exit status is the exit code the driven program ended with.
C14_InteractiveExitCode ==
    (cpc = "exited" /\ request # "loaded") =>
        /\ sys_exit = driven_exit /\ driven_exit # -1
        /\ stdin_writes = 0 /\ child_stdin = <<>> /\ ~input_file.exists
        /\ builtins_input = "original" /\ getpass_getpass = "original"

C14_Witness ==
    /\ cpc = "exited" /\ request = "unreadable" /\ wrapper = "v2" /\ sys_exit = 3

(***************************************************************************)
(* Claims about the output extractors                                      *)
(***************************************************************************)
\* a well-formed identifier: 8-4-4-4-12 hexadecimal digits in either case
HexAny == HexLower \cup {"A", "B", "C", "D", "E", "F"}
WellFormed(value) ==
    /\ Len(value) = 36
    /\ \A j \in 1..36 : IF j \in {9, 14, 19, 24} THEN value[j] = "-" ELSE value[j] \in HexAny

\* the first well-formed identifier that follows the first occurrence of the
\* marker on the line; Absent when the line has no marker or no identifier
\* after it
IdAfterMarker(line, marker) ==
    LET markers == {i \in 1..Len(line) :
                       /\ i + Len(marker) - 1 <= Len(line)
                       /\ \A j \in 1..Len(marker) : line[i + j - 1] = marker[j]}
    IN  IF markers = {} THEN Absent
        ELSE LET m == CHOOSE i \in markers : \A o \in markers : i <= o
                 ids == {i \in (m + Len(marker))..(Len(line) - 35) :
                            WellFormed(SubSeq(line, i, i + 35))}
             IN  IF ids = {} THEN Absent
                 ELSE LET i == CHOOSE k \in ids : \A o \in ids : k <= o
                      IN  SubSeq(line, i, i + 35)

\* the lines of the emitted text that carry the marker with an identifier
LabelledLines(marker) ==
    {k \in 1..Len(Split(output_text)) : IdAfterMarker(Split(output_text)[k], marker) # Absent}

Labels == {"vm", "task"}
MarkerOf(label) == IF label = "vm" THEN MarkerVm ELSE MarkerTask
Retained(label) == IF label = "vm" THEN vm_uuid ELSE task_uuid
Empty(value) == value = <<>> \/ value = Absent

\* C15: when several lines of the text carry the same label marker, each with
\* a well-formed identifier, the identifier retained for the label is the one
\* of the first such line.
C15_FirstLabelledLineWins ==
    epc = "done" =>
        \A label \in Labels :
            LET ks == LabelledLines(MarkerOf(label))
            IN  Cardinality(ks) >= 2 =>
                    LET first == CHOOSE k \in ks : \A o \in ks : k <= o
                    IN  Retained(label) = IdAfterMarker(Split(output_text)[first], MarkerOf(label))

\* C16: for every text the value retained for a label is empty or well-formed,
\* a label none of whose lines holds an identifier stays empty, and the
\* extraction raises nothing.
C16_WellFormedOrEmpty ==
    epc = "done" =>
        /\ raised = "none"
        /\ \A label \in Labels :
               /\ Empty(Retained(label)) \/ WellFormed(Retained(label))
               /\ LabelledLines(MarkerOf(label)) = {} => Empty(Retained(label))

\* C17: for a text with exactly one line that carries the resource marker
\* followed by a well-formed identifier, the extractor returns that identifier
\* (the first one after the marker, in whatever letter case), whatever stands
\* before the marker or on the other lines.
C17_ExactIdentifier ==
    (epc = "done" /\ Cardinality(LabelledLines(MarkerVm)) = 1) =>
        LET k == CHOOSE i \in LabelledLines(MarkerVm) : TRUE
        IN  vm_uuid = IdAfterMarker(Split(output_text)[k], MarkerVm)

(***************************************************************************)
(* Claims about main() of the readiness scripts and the result file        *)
(***************************************************************************)
\* C18: when deployment_config.json is absent or lacks pc_ip or username, the
\* script exits with a nonzero status before the password prompt and before
\* any request, and the result file is not written.
C18_ConfigErrorExitsEarly ==
    config \in {"absent", "no_pc_ip", "no_username"} =>
        /\ ~prompted /\ queries = 0 /\ wrote = 0 /\ file \in EarlierFiles
        /\ pc # "main" => (pc = "exited" /\ process_exit \notin {-1, 0})

C18_Witness ==
    /\ config = "no_username" /\ argc = 2 /\ pc = "exited" /\ process_exit = 1
    /\ script = "check_vm_status" /\ file.status = "SUCCESS"

\* a fatal configuration error, and a query that failed (for the poller: every
\* query of the session failed)
ConfigurationError == argc # 2 \/ config # "ok"
NetworkError ==
    IF script = "check_vm_status" THEN lastKind \in {"exception", "http_error"}
    ELSE queries > 0 /\ transportFailures + httpErrors = queries

\* C19: a readiness script exits with a nonzero status on every fatal
\* configuration error and on every network error, and with zero on SUCCESS
\* and on a pending or timeout outcome.
C19_ExitStatus ==
    process_exit # -1 =>
        (process_exit # 0 <=> (ConfigurationError \/ NetworkError))

\* C20: at every point of a run, an interruption between opening the result
\* file and the end of the write included, the result file holds its previous
\* content or one complete record, never an empty or a partial one; it is
\* written at most once.
C20_AtomicWrite ==
    /\ file.status \notin {"EMPTY", "PARTIAL"}
    /\ wrote <= 1

\* the secrets of the automation request that have a value
RequestSecrets ==
    {s \in {Get(automation_data.admin_password, <<>>),
            Get(automation_data.pc_password, <<>>)} : s # <<>>}

\* C21: during a run of any execution strategy the secrets exist only in
\* process memory and in the channel to the driven program: no file on disk
\* that the wrapper created contains a secret, also while the child runs and
\* after a timeout.
C21_NoSecretOnDisk ==
    input_file.exists =>
        \A s \in RequestSecrets : ~Contains(input_file.content, s)

\* the deployment confirmation the child is given: the second line of its
\* standard input
ConfirmationSent == Split(child_stdin)[2]

\* C22: the deployment confirmation supplied to the driven program is the
\* request's proceed_deployment field, "y" when the field is absent; a request
\* whose proceed_deployment is not "y" never has "y" sent.
C22_ConfirmationFromRequest ==
    ChildStarted =>
        ConfirmationSent = Get(automation_data.proceed_deployment, <<"y">>)

\* C23: on every path by which the in-process run_automated_deployment is left
\* after patching (normal completion, an exception in the driven program, the
\* driven program requesting process exit), builtins.input, getpass.getpass,
\* builtins.print and sys.argv are bound to what they were bound to before the
\* call.
C23_BindingsRestored ==
    dpc = "done" =>
        /\ builtins_input = "original"
        /\ getpass_getpass = "original"
        /\ builtins_print = "original"
        /\ sys_argv = "original"

\* v2, which patches print as well, left by the SystemExit of a driven program
\* that had been given answers and a secret by the substitutes
C23_Witness ==
    /\ version = "v2" /\ dpc = "done" /\ exit_code = 3
    /\ secretAsked /\ handed # <<>>
    /\ builtins_print = "original" /\ sys_argv = "original"

\* C24: in the in-process capturing strategy every call of the intercepted
\* print terminates, also for a message that holds a label marker: nothing is
\* raised, and each message the driven program printed has been forwarded to
\* the original print exactly once.
C24_InterceptedPrintTerminates ==
    extractor = "v2" =>
        /\ raised = "none"
        /\ epc = "done" => printed = Len(Split(output_text))

\* C25: in the one-shot status check a record with status PENDING and a null
\* address is written only when the query succeeded (HTTP 200) and no endpoint
\* had a non-empty ip of category ASSIGNED or LEARNED; when the query fails
\* (another status, or an exception of the request) the result file is left as
\* it was, so that the record of an earlier run remains in place.
C25_PendingOnlyAfterEmptyAnswer ==
    [][(script = "check_vm_status" /\ pc = "call" /\ pc' = "returned") =>
           /\ lastKind' \in {"exception", "http_error"} =>
                  (file' = file /\ wrote' = wrote)
           /\ (wrote' # wrote /\ file'.status = "PENDING") =>
                  /\ lastKind' = "ok"
                  /\ ~sawQualifying'
                  /\ file'.ip_address = None]_vars

\* an earlier SUCCESS record is still in place after a check whose request
\* raised
C25_Witness ==
    /\ StatusReturned /\ lastKind = "exception"
    /\ wrote = 0 /\ file.status = "SUCCESS" /\ file.ip_address # None

====
